---- MODULE Spec2Model ----
(***************************************************************************)
(* Pyramid puzzle path validator (src/src/game_validator.py).              *)
(*                                                                         *)
(* A text (tile name, item name, path element) is a sequence of one-       *)
(* character strings, so that "D02" and "D2" are different texts that      *)
(* parse_tile maps to the same (level, number).  Python's None is the      *)
(* one-element sequence <<"None">>, which is no text.                      *)
(***************************************************************************)
EXTENDS Integers, Sequences, FiniteSets, TLC

VARIABLES
    pc,               \* position of the evaluation: "start", "loop", "returned", "scored"
    scenario,         \* scenario_config, the caller's input (never assigned)
    path,             \* the elements of path_str, path_str.split("|"), fixed beforehand
    open,             \* TRUE when path_str goes on after them with elements that are
                      \* chosen as the loop reaches them
    i,                \* number of actions the for loop has taken up (enumerate index + 1)
    action,           \* the action taken up last, as parse_path built it
    current_position, \* validate_path's current_position
    total_mp,         \* validate_path's total_mp
    game_state,       \* the GameState object
    result,           \* validate_path's return value (is_valid, message, total_mp)
    verdict,          \* validate_puzzle_solution's return value
    from_tile,        \* is_valid_move's arguments and return value
    to_tile,
    move_result,
    with_ladder,       \* calculate_mp_cost's argument and return value
    mp_cost,
    other,            \* a second evaluation over the same scenario_config, while the
                      \* first one runs: its path, pc, i, action, current_position,
                      \* total_mp, game_state, result and verdict (None when there is none)
    run               \* the locals of _run_scenario_for_model (None outside a run)

vars == <<pc, scenario, path, open, i, action, current_position, total_mp, game_state,
          result, verdict, from_tile, to_tile, move_result, with_ladder, mp_cost, other, run>>

None == <<"None">>

----------------------------------------------------------------------------
(* Texts *)

Levels == {"A", "B", "C", "D", "E"}

Digits == {"0", "1", "2", "3", "4", "5", "6", "7", "8", "9"}

Whitespace == {" "}

DigitVal(c) ==
    CASE c = "0" -> 0 [] c = "1" -> 1 [] c = "2" -> 2 [] c = "3" -> 3
      [] c = "4" -> 4 [] c = "5" -> 5 [] c = "6" -> 6 [] c = "7" -> 7
      [] c = "8" -> 8 [] c = "9" -> 9

DigitChar(n) ==
    CASE n = 0 -> "0" [] n = 1 -> "1" [] n = 2 -> "2" [] n = 3 -> "3"
      [] n = 4 -> "4" [] n = 5 -> "5" [] n = 6 -> "6" [] n = 7 -> "7"
      [] n = 8 -> "8" [] n = 9 -> "9"

\* int(s) for a text of decimal digits
RECURSIVE IntOf(_)
IntOf(s) ==
    IF s = <<>> THEN 0
    ELSE 10 * IntOf(SubSeq(s, 1, Len(s) - 1)) + DigitVal(s[Len(s)])

\* str(n) for n >= 0
RECURSIVE StrOf(_)
StrOf(n) ==
    IF n < 10 THEN <<DigitChar(n)>>
    ELSE Append(StrOf(n \div 10), DigitChar(n % 10))

\* the canonical name of the tile (level, number), as f"{level}{number}"
TileName(level, number) == <<level>> \o StrOf(number)

\* str.strip()
RECURSIVE Strip(_)
Strip(s) ==
    IF s = <<>> THEN s
    ELSE IF s[1] \in Whitespace THEN Strip(Tail(s))
    ELSE IF s[Len(s)] \in Whitespace THEN Strip(SubSeq(s, 1, Len(s) - 1))
    ELSE s

\* ":" in s
HasColon(s) == \E k \in 1..Len(s) : s[k] = ":"

\* index of the first ":" of a text that has one
FirstColon(s) == CHOOSE k \in 1..Len(s) : s[k] = ":" /\ \A j \in 1..(k - 1) : s[j] # ":"

ClearPrefix == <<"c", "l", "e", "a", "r", ":">>

\* s.startswith("clear:")
StartsWithClear(s) ==
    Len(s) >= Len(ClearPrefix) /\ SubSeq(s, 1, Len(ClearPrefix)) = ClearPrefix

----------------------------------------------------------------------------
(* GameValidator *)

LEVEL_MAX(level) ==
    CASE level = "A" -> 1 [] level = "B" -> 4 [] level = "C" -> 8
      [] level = "D" -> 16 [] level = "E" -> 32

\* ord(level)
Ord(level) ==
    CASE level = "A" -> 65 [] level = "B" -> 66 [] level = "C" -> 67
      [] level = "D" -> 68 [] level = "E" -> 69

\* re.match(r'^[A-E]\d+$', tile_str)
\* tile_str without the one line feed that '$' lets the pattern end before
BeforeLineFeed(tile_str) ==
    IF Len(tile_str) >= 1 /\ tile_str[Len(tile_str)] = "\n"
    THEN SubSeq(tile_str, 1, Len(tile_str) - 1)
    ELSE tile_str

\* re.match(r'^[A-E]\d+$', tile_str), for texts of ASCII characters
MatchesTileFormat(tile_str) ==
    LET s == BeforeLineFeed(tile_str)
    IN /\ Len(s) >= 2
       /\ s[1] \in Levels
       /\ \A k \in 2..Len(s) : s[k] \in Digits

\* int(tile_str[1:]) of a text that matches the pattern: int() ignores the
\* line feed
TileNumber(tile_str) == IntOf(Tail(BeforeLineFeed(tile_str)))

\* parse_tile raises ValueError exactly when ParseTileOk is false
ParseTileOk(tile_str) ==
    /\ MatchesTileFormat(tile_str)
    /\ TileNumber(tile_str) >= 1
    /\ TileNumber(tile_str) <= LEVEL_MAX(tile_str[1])

\* parse_tile's return value (level, number) when it does not raise
parse_tile(tile_str) == <<tile_str[1], TileNumber(tile_str)>>

\* the inward rule with from_num // 2 for the expected index
is_valid_move_floor_division(from, to) ==
    IF ~(ParseTileOk(from) /\ ParseTileOk(to)) THEN <<FALSE, "invalid_tile", 0>>
    ELSE
      LET from_level == parse_tile(from)[1]
          from_num   == parse_tile(from)[2]
          to_level   == parse_tile(to)[1]
          to_num     == parse_tile(to)[2]
          level_max  == LEVEL_MAX(from_level)
      IN
      IF /\ from_level = to_level
         /\ \/ (from_num < level_max /\ to_num = from_num + 1)
            \/ (from_num = level_max /\ to_num = 1)
      THEN <<TRUE, "clockwise", 1>>
      ELSE IF /\ from_level = to_level
              /\ \/ (from_num > 1 /\ to_num = from_num - 1)
                 \/ (from_num = 1 /\ to_num = level_max)
      THEN <<TRUE, "counter_clockwise", 1>>
      ELSE IF Ord(to_level) = Ord(from_level) - 1 /\ to_num = from_num \div 2
      THEN <<TRUE, "inward", 2>>
      ELSE IF Ord(to_level) = Ord(from_level) + 1 /\ to_num = 2 * from_num - 1
      THEN <<TRUE, "outward_left", 1>>
      ELSE IF Ord(to_level) = Ord(from_level) + 1 /\ to_num = 2 * from_num
      THEN <<TRUE, "outward_right", 1>>
      ELSE IF from = <<"A", "1">> /\ to_level = "B"
      THEN <<TRUE, "outward_from_peak", 1>>
      ELSE IF from_level = "B" /\ to = <<"A", "1">>
      THEN <<TRUE, "inward_to_peak", 2>>
      ELSE <<FALSE, "invalid_move", 0>>

\* the outward-right rule with 2 * from_num + 1 for the target index
is_valid_move_right_child_shifted(from, to) ==
    IF ~(ParseTileOk(from) /\ ParseTileOk(to)) THEN <<FALSE, "invalid_tile", 0>>
    ELSE
      LET from_level == parse_tile(from)[1]
          from_num   == parse_tile(from)[2]
          to_level   == parse_tile(to)[1]
          to_num     == parse_tile(to)[2]
          level_max  == LEVEL_MAX(from_level)
      IN
      IF /\ from_level = to_level
         /\ \/ (from_num < level_max /\ to_num = from_num + 1)
            \/ (from_num = level_max /\ to_num = 1)
      THEN <<TRUE, "clockwise", 1>>
      ELSE IF /\ from_level = to_level
              /\ \/ (from_num > 1 /\ to_num = from_num - 1)
                 \/ (from_num = 1 /\ to_num = level_max)
      THEN <<TRUE, "counter_clockwise", 1>>
      ELSE IF Ord(to_level) = Ord(from_level) - 1 /\ to_num = (from_num + 1) \div 2
      THEN <<TRUE, "inward", 2>>
      ELSE IF Ord(to_level) = Ord(from_level) + 1 /\ to_num = 2 * from_num - 1
      THEN <<TRUE, "outward_left", 1>>
      ELSE IF Ord(to_level) = Ord(from_level) + 1 /\ to_num = 2 * from_num + 1
      THEN <<TRUE, "outward_right", 1>>
      ELSE IF from = <<"A", "1">> /\ to_level = "B"
      THEN <<TRUE, "outward_from_peak", 1>>
      ELSE IF from_level = "B" /\ to = <<"A", "1">>
      THEN <<TRUE, "inward_to_peak", 2>>
      ELSE <<FALSE, "invalid_move", 0>>

\* the move rules without the two special cases of the peak
is_valid_move_without_peak_cases(from, to) ==
    IF ~(ParseTileOk(from) /\ ParseTileOk(to)) THEN <<FALSE, "invalid_tile", 0>>
    ELSE
      LET from_level == parse_tile(from)[1]
          from_num   == parse_tile(from)[2]
          to_level   == parse_tile(to)[1]
          to_num     == parse_tile(to)[2]
          level_max  == LEVEL_MAX(from_level)
      IN
      IF /\ from_level = to_level
         /\ \/ (from_num < level_max /\ to_num = from_num + 1)
            \/ (from_num = level_max /\ to_num = 1)
      THEN <<TRUE, "clockwise", 1>>
      ELSE IF /\ from_level = to_level
              /\ \/ (from_num > 1 /\ to_num = from_num - 1)
                 \/ (from_num = 1 /\ to_num = level_max)
      THEN <<TRUE, "counter_clockwise", 1>>
      ELSE IF Ord(to_level) = Ord(from_level) - 1 /\ to_num = (from_num + 1) \div 2
      THEN <<TRUE, "inward", 2>>
      ELSE IF Ord(to_level) = Ord(from_level) + 1 /\ to_num = 2 * from_num - 1
      THEN <<TRUE, "outward_left", 1>>
      ELSE IF Ord(to_level) = Ord(from_level) + 1 /\ to_num = 2 * from_num
      THEN <<TRUE, "outward_right", 1>>
      ELSE <<FALSE, "invalid_move", 0>>

\* the inward rule taking any level closer to the peak
is_valid_move_inward_any_level(from, to) ==
    IF ~(ParseTileOk(from) /\ ParseTileOk(to)) THEN <<FALSE, "invalid_tile", 0>>
    ELSE
      LET from_level == parse_tile(from)[1]
          from_num   == parse_tile(from)[2]
          to_level   == parse_tile(to)[1]
          to_num     == parse_tile(to)[2]
          level_max  == LEVEL_MAX(from_level)
      IN
      IF /\ from_level = to_level
         /\ \/ (from_num < level_max /\ to_num = from_num + 1)
            \/ (from_num = level_max /\ to_num = 1)
      THEN <<TRUE, "clockwise", 1>>
      ELSE IF /\ from_level = to_level
              /\ \/ (from_num > 1 /\ to_num = from_num - 1)
                 \/ (from_num = 1 /\ to_num = level_max)
      THEN <<TRUE, "counter_clockwise", 1>>
      ELSE IF Ord(to_level) < Ord(from_level) /\ to_num = (from_num + 1) \div 2
      THEN <<TRUE, "inward", 2>>
      ELSE IF Ord(to_level) = Ord(from_level) + 1 /\ to_num = 2 * from_num - 1
      THEN <<TRUE, "outward_left", 1>>
      ELSE IF Ord(to_level) = Ord(from_level) + 1 /\ to_num = 2 * from_num
      THEN <<TRUE, "outward_right", 1>>
      ELSE IF from = <<"A", "1">> /\ to_level = "B"
      THEN <<TRUE, "outward_from_peak", 1>>
      ELSE IF from_level = "B" /\ to = <<"A", "1">>
      THEN <<TRUE, "inward_to_peak", 2>>
      ELSE <<FALSE, "invalid_move", 0>>

is_valid_move(from, to) ==
    IF ~(ParseTileOk(from) /\ ParseTileOk(to)) THEN <<FALSE, "invalid_tile", 0>>
    ELSE
      LET from_level == parse_tile(from)[1]
          from_num   == parse_tile(from)[2]
          to_level   == parse_tile(to)[1]
          to_num     == parse_tile(to)[2]
          level_max  == LEVEL_MAX(from_level)
      IN
      IF /\ from_level = to_level
         /\ \/ (from_num < level_max /\ to_num = from_num + 1)
            \/ (from_num = level_max /\ to_num = 1)
      THEN <<TRUE, "clockwise", 1>>
      ELSE IF /\ from_level = to_level
              /\ \/ (from_num > 1 /\ to_num = from_num - 1)
                 \/ (from_num = 1 /\ to_num = level_max)
      THEN <<TRUE, "counter_clockwise", 1>>
      ELSE IF Ord(to_level) = Ord(from_level) - 1 /\ to_num = (from_num + 1) \div 2
      THEN <<TRUE, "inward", 2>>
      ELSE IF Ord(to_level) = Ord(from_level) + 1 /\ to_num = 2 * from_num - 1
      THEN <<TRUE, "outward_left", 1>>
      ELSE IF Ord(to_level) = Ord(from_level) + 1 /\ to_num = 2 * from_num
      THEN <<TRUE, "outward_right", 1>>
      ELSE IF from = <<"A", "1">> /\ to_level = "B"
      THEN <<TRUE, "outward_from_peak", 1>>
      ELSE IF from_level = "B" /\ to = <<"A", "1">>
      THEN <<TRUE, "inward_to_peak", 2>>
      ELSE <<FALSE, "invalid_move", 0>>

\* base_costs with 3 for an inward move
base_costs_inward_three(move_type) ==
    CASE move_type \in {"clockwise", "counter_clockwise", "outward_left",
                        "outward_right", "outward_from_peak"} -> 1
      [] move_type \in {"inward", "inward_to_peak"} -> 3
      [] OTHER -> 0

base_costs(move_type) ==
    CASE move_type \in {"clockwise", "counter_clockwise", "outward_left",
                        "outward_right", "outward_from_peak"} -> 1
      [] move_type \in {"inward", "inward_to_peak"} -> 2
      [] OTHER -> 0

\* calculate_mp_cost with the ladder discount applied whether or not the ladder is held
calculate_mp_cost_always_discounted(move_type, has_ladder) ==
    IF move_type \in {"inward", "inward_to_peak"} THEN 1
    ELSE base_costs(move_type)

\* calculate_mp_cost without the ladder's effect
calculate_mp_cost_never_discounted(move_type, has_ladder) == base_costs(move_type)

calculate_mp_cost(move_type, has_ladder) ==
    IF has_ladder /\ move_type \in {"inward", "inward_to_peak"} THEN 1
    ELSE base_costs(move_type)

\* the action parse_path appends for one element of path_str.split("|")
ParseElement(raw) ==
    LET element == Strip(raw) IN
    IF HasColon(element) THEN
        IF StartsWithClear(element)
        THEN [type |-> "clear",
              tile |-> SubSeq(element, Len(ClearPrefix) + 1, Len(element)),
              item |-> None]
        ELSE [type |-> "collect",
              tile |-> SubSeq(element, 1, FirstColon(element) - 1),
              item |-> SubSeq(element, FirstColon(element) + 1, Len(element))]
    ELSE [type |-> "move", tile |-> element, item |-> None]

----------------------------------------------------------------------------
(* GameState *)

\* set(blocked_tiles) of a list
SetOf(list) == {list[k] : k \in 1..Len(list)}

\* GameState.__init__
GameState(blocked_tiles, collectibles) ==
    [position        |-> None,
     collected_items |-> {},
     blocked_tiles   |-> SetOf(blocked_tiles),
     collectibles    |-> collectibles,
     has_ladder      |-> FALSE,
     has_key         |-> FALSE,
     dynamite_used   |-> FALSE]

\* the dict entries collect_item's loop stops at: those located at tile and not
\* yet collected (the dict is a sequence of entries in insertion order)
Collectable(gs, tile) ==
    {k \in 1..Len(gs.collectibles) :
        /\ gs.collectibles[k].location = tile
        /\ gs.collectibles[k].type \notin gs.collected_items}

FirstOf(S) == CHOOSE k \in S : \A j \in S : k <= j

\* collect_item's return value: the item type, or None
collect_item_value(gs, tile) ==
    IF Collectable(gs, tile) = {} THEN None
    ELSE gs.collectibles[FirstOf(Collectable(gs, tile))].type

\* collect_item without the record of what has been collected
collect_item_state_keeps_no_record(gs, tile) ==
    IF Collectable(gs, tile) = {} THEN gs
    ELSE LET item_type == collect_item_value(gs, tile) IN
         [gs EXCEPT !.has_ladder = IF item_type = <<"l", "a", "d", "d", "e", "r">> THEN TRUE ELSE @,
                    !.has_key = IF item_type = <<"k", "e", "y">> THEN TRUE ELSE @]

\* collect_item setting has_ladder for whatever item it collects
collect_item_state_any_item_is_a_ladder(gs, tile) ==
    IF Collectable(gs, tile) = {} THEN gs
    ELSE LET item_type == collect_item_value(gs, tile) IN
         [gs EXCEPT !.collected_items = @ \cup {item_type},
                    !.has_ladder = TRUE,
                    !.has_key = IF item_type = <<"k", "e", "y">> THEN TRUE ELSE @]

\* the GameState after collect_item
collect_item_state(gs, tile) ==
    IF Collectable(gs, tile) = {} THEN gs
    ELSE LET item_type == collect_item_value(gs, tile) IN
         [gs EXCEPT !.collected_items = @ \cup {item_type},
                    !.has_ladder = IF item_type = <<"l", "a", "d", "d", "e", "r">> THEN TRUE ELSE @,
                    !.has_key = IF item_type = <<"k", "e", "y">> THEN TRUE ELSE @]

Dynamite == <<"d", "y", "n", "a", "m", "i", "t", "e">>

\* use_dynamite's return value
\* use_dynamite without the test that the target is blocked
use_dynamite_value_any_target(gs, target_tile) ==
    /\ Dynamite \in gs.collected_items
    /\ ~gs.dynamite_used

use_dynamite_value(gs, target_tile) ==
    /\ Dynamite \in gs.collected_items
    /\ ~gs.dynamite_used
    /\ target_tile \in gs.blocked_tiles

\* use_dynamite that forgets to mark the dynamite used
use_dynamite_state_never_spent(gs, target_tile) ==
    IF use_dynamite_value(gs, target_tile)
    THEN [gs EXCEPT !.blocked_tiles = @ \ {target_tile}]
    ELSE gs

\* the GameState after use_dynamite
use_dynamite_state(gs, target_tile) ==
    IF use_dynamite_value(gs, target_tile)
    THEN [gs EXCEPT !.blocked_tiles = @ \ {target_tile}, !.dynamite_used = TRUE]
    ELSE gs

----------------------------------------------------------------------------
(* validate_path's messages: the kind of the f-string and the values it formats *)

Msg(kind, tile, item, at, step) ==
    [kind |-> kind, tile |-> tile, item |-> item, at |-> at, step |-> step]

PathParsingError == Msg("Path parsing error: Empty path", None, None, None, 0)

BlockedMsg(tile, step) == Msg("Cannot move to blocked tile", tile, None, None, step)

StartLevelMsg(tile) == Msg("Must start from E-level tile", tile, None, None, 0)

StartInvalidMsg(tile) == Msg("Invalid starting tile", tile, None, None, 0)

InvalidMoveMsg(at, tile, step) == Msg("Invalid move", tile, None, at, step)

NotAtPositionMsg(item, tile, at) == Msg("Cannot collect - not at that position", tile, item, at, 0)

NoItemMsg(item, tile) == Msg("No item available", tile, item, None, 0)

NoDynamiteMsg(tile) == Msg("Cannot clear - no dynamite collected", tile, None, None, 0)

DynamiteUsedMsg(tile) == Msg("Cannot clear - dynamite already used", tile, None, None, 0)

NotBlockedMsg(tile) == Msg("Cannot clear - tile not blocked", tile, None, None, 0)

EndMsg(at) == Msg("Path must end at A1", None, None, at, 0)

MissingKeyMsg == Msg("Must collect key before reaching A1", None, None, None, 0)

\* the success message left empty
ValidMsg_empty == Msg("", None, None, None, 0)

ValidMsg == Msg("Path is valid", None, None, None, 0)

----------------------------------------------------------------------------
(* Inputs *)

Key == <<"k", "e", "y">>

Ladder == <<"l", "a", "d", "d", "e", "r">>

A1 == TileName("A", 1)
B1 == TileName("B", 1)
B2 == TileName("B", 2)
B3 == TileName("B", 3)
C1 == TileName("C", 1)
D1 == TileName("D", 1)
D2 == TileName("D", 2)
E1 == TileName("E", 1)
E2 == TileName("E", 2)

\* the element "tile:item" and the element "clear:tile"
CollectText(tile, item) == tile \o <<":">> \o item

ClearText(tile) == ClearPrefix \o tile

At(type, location) == [type |-> type, location |-> location]

\* scenario_config["collectibles"], as the dict validate_path builds from it
CollectibleChoices ==
    { <<>>,
      <<At(Key, D1)>>,
      <<At(Dynamite, E1), At(Key, E1)>>,
      <<At(Ladder, E1), At(Key, D1), At(Dynamite, E2)>> }

\* the tiles of scenario_config["blocked"]
BlockedChoices == { <<>>, <<D1>>, <<E1, C1>> }

\* scenario_config["objective"]["requires"]
RequiresChoices == { <<>>, <<Ladder>> }

\* scenario_config["solution"].get("optimal_mp"): <<>> when absent, <<n>> when n
OptimalChoices == { <<>>, <<4>>, <<8>> }

Scenarios ==
    [blocked : BlockedChoices, collectibles : CollectibleChoices,
     requires : RequiresChoices, optimal_mp : OptimalChoices]

\* a path_str given whole, as its elements; << <<>> >> is the empty string
GivenPaths ==
    { << <<>> >>,
      << <<" ">> >>,
      <<E1, D1, C1, B1, A1>>,
      <<E1, CollectText(D1, Key), D1, C1, B1, A1>>,
      <<E1, D1, CollectText(D1, Key), C1, B1, A1>>,
      <<E1, D1, <<"X", "9">>, C1>>,
      <<E1, D1, C1, <<"D", "1", ":">>, B1>>,
      << <<"c", "l", "e", "a", "r">>, E1>>,
      <<CollectText(E1, Key), E1, D1>>,
      <<D1, C1, B1, A1>>,
      <<E1, CollectText(<<>>, Key), D1>>,
      <<E1, CollectText(E1, <<>>), ClearText(<<>>)>>,
      << <<" ">>, <<" ">> >>,
      <<E2, CollectText(E2, Dynamite), ClearText(C1), D1, C1>>,
      <<E1, CollectText(E1, Ladder), E2, D1, C1>> }

\* the elements a path_str that is not given whole goes on with
Elements ==
    { E1, E2, D1, C1, B1, B2, B3, A1,
      <<"E", "0", "1">>, <<" ", "E", "1">>, <<"A", "0", "1">>, <<"E", "3", "3">>, <<>>,
      CollectText(E1, Key), CollectText(D1, Key), CollectText(E1, Dynamite),
      CollectText(E2, Dynamite), CollectText(E1, Ladder), CollectText(D1, <<>>),
      ClearText(D1), ClearText(E1), ClearText(B2), ClearText(<<>>) }

\* longest path_str, in elements, that is not given whole
MaxLen == 8

\* the elements the loop may take up next, and whether the loop is over
Upcoming ==
    IF i < Len(path) THEN {path[i + 1]}
    ELSE IF open /\ i < MaxLen THEN Elements
    ELSE {}

PathEnded == i >= Len(path) /\ (open => i >= 1)

\* parse_path rejecting only a missing path_str (path_str is None)
PathEmpty_only_None == FALSE

\* not path_str
PathEmpty == ~open /\ path = << <<>> >>

----------------------------------------------------------------------------
(* validate_path and validate_puzzle_solution *)

Init ==
    /\ pc = "start"
    /\ scenario \in Scenarios
    /\ \/ path \in GivenPaths /\ open = FALSE
       \/ path = <<>> /\ open = TRUE
    /\ i = 0
    /\ action = None
    /\ current_position = None
    /\ total_mp = 0
    /\ game_state = None
    /\ result = None
    /\ verdict = None
    /\ from_tile = None
    /\ to_tile = None
    /\ move_result = None
    /\ with_ladder = FALSE
    /\ mp_cost = 0
    /\ other = None
    /\ run = None

\* a return that reports no cost for a path that failed
Return_zero_on_failure(is_valid, message, mp) ==
    /\ result' = [is_valid |-> is_valid, message |-> message,
                  total_mp |-> IF is_valid THEN mp ELSE 0]
    /\ pc' = "returned"

Return(is_valid, message, mp) ==
    /\ result' = [is_valid |-> is_valid, message |-> message, total_mp |-> mp]
    /\ pc' = "returned"

\* parse_path raises: "Path parsing error"
ParseError ==
    /\ pc = "start"
    /\ PathEmpty
    /\ Return(FALSE, PathParsingError, 0)
    /\ UNCHANGED <<scenario, path, open, i, action, current_position, total_mp,
                   game_state, verdict, from_tile, to_tile, move_result, with_ladder, mp_cost,
                   other, run>>

\* parse_path returns; the game state is initialised
Start ==
    /\ pc = "start"
    /\ ~PathEmpty
    /\ game_state' = GameState(scenario.blocked, scenario.collectibles)
    /\ total_mp' = 0
    /\ current_position' = None
    /\ pc' = "loop"
    /\ UNCHANGED <<scenario, path, open, i, action, result, verdict,
                   from_tile, to_tile, move_result, with_ladder, mp_cost,
                   other, run>>

\* the move branch with the starting-tile check made before the blocked check
MoveBody_start_check_first(a) ==
    LET tile == a.tile
        mv   == is_valid_move(current_position, tile)
    IN
    IF current_position = None /\ ~ParseTileOk(tile) THEN
        /\ Return(FALSE, StartInvalidMsg(tile), total_mp)
        /\ UNCHANGED <<current_position, total_mp>>
    ELSE IF current_position = None /\ parse_tile(tile)[1] # "E" THEN
        /\ Return(FALSE, StartLevelMsg(tile), total_mp)
        /\ UNCHANGED <<current_position, total_mp>>
    ELSE IF tile \in game_state.blocked_tiles THEN
        /\ Return(FALSE, BlockedMsg(tile, i + 1), total_mp)
        /\ UNCHANGED <<current_position, total_mp>>
    ELSE IF current_position = None THEN
        /\ current_position' = tile
        /\ UNCHANGED <<pc, result, total_mp>>
    ELSE IF ~mv[1] THEN
        /\ Return(FALSE, InvalidMoveMsg(current_position, tile, i + 1), total_mp)
        /\ UNCHANGED <<current_position, total_mp>>
    ELSE
        /\ total_mp' = total_mp + calculate_mp_cost(mv[2], game_state.has_ladder)
        /\ current_position' = tile
        /\ UNCHANGED <<pc, result>>

\* the move branch accepting a starting tile of any level
MoveBody_any_level_start(a) ==
    LET tile == a.tile
        mv   == is_valid_move(current_position, tile)
    IN
    IF tile \in game_state.blocked_tiles THEN
        /\ Return(FALSE, BlockedMsg(tile, i + 1), total_mp)
        /\ UNCHANGED <<current_position, total_mp>>
    ELSE IF current_position = None THEN
        IF ~ParseTileOk(tile) THEN
            /\ Return(FALSE, StartInvalidMsg(tile), total_mp)
            /\ UNCHANGED <<current_position, total_mp>>
        ELSE
            /\ current_position' = tile
            /\ UNCHANGED <<pc, result, total_mp>>
    ELSE IF ~mv[1] THEN
        /\ Return(FALSE, InvalidMoveMsg(current_position, tile, i + 1), total_mp)
        /\ UNCHANGED <<current_position, total_mp>>
    ELSE
        /\ total_mp' = total_mp + calculate_mp_cost(mv[2], game_state.has_ladder)
        /\ current_position' = tile
        /\ UNCHANGED <<pc, result>>

\* one pass of the loop over an action of type "move"
MoveBody(a) ==
    LET tile == a.tile
        mv   == is_valid_move(current_position, tile)
    IN
    IF tile \in game_state.blocked_tiles THEN
        /\ Return(FALSE, BlockedMsg(tile, i + 1), total_mp)
        /\ UNCHANGED <<current_position, total_mp>>
    ELSE IF current_position = None THEN
        IF ~ParseTileOk(tile) THEN
            /\ Return(FALSE, StartInvalidMsg(tile), total_mp)
            /\ UNCHANGED <<current_position, total_mp>>
        ELSE IF parse_tile(tile)[1] # "E" THEN
            /\ Return(FALSE, StartLevelMsg(tile), total_mp)
            /\ UNCHANGED <<current_position, total_mp>>
        ELSE
            /\ current_position' = tile
            /\ UNCHANGED <<pc, result, total_mp>>
    ELSE IF ~mv[1] THEN
        /\ Return(FALSE, InvalidMoveMsg(current_position, tile, i + 1), total_mp)
        /\ UNCHANGED <<current_position, total_mp>>
    ELSE
        /\ total_mp' = total_mp + calculate_mp_cost(mv[2], game_state.has_ladder)
        /\ current_position' = tile
        /\ UNCHANGED <<pc, result>>

\* the move branch taking up the same element again instead of the next one
Move_without_advance ==
    /\ pc = "loop"
    /\ \E e \in Upcoming :
         /\ ParseElement(e).type = "move"
         /\ action' = ParseElement(e)
         /\ MoveBody(ParseElement(e))
    /\ i' = i
    /\ UNCHANGED <<scenario, path, open, game_state, verdict,
                   from_tile, to_tile, move_result, with_ladder, mp_cost,
                   other, run>>

Move ==
    /\ pc = "loop"
    /\ \E e \in Upcoming :
         /\ ParseElement(e).type = "move"
         /\ action' = ParseElement(e)
         /\ MoveBody(ParseElement(e))
    /\ i' = i + 1
    /\ UNCHANGED <<scenario, path, open, game_state, verdict,
                   from_tile, to_tile, move_result, with_ladder, mp_cost,
                   other, run>>

\* the collect branch without the check that the actor stands on the tile
CollectBody_from_a_distance(a) ==
    /\ game_state' = collect_item_state(game_state, a.tile)
    /\ IF collect_item_value(game_state, a.tile) # a.item
       THEN Return(FALSE, NoItemMsg(a.item, a.tile), total_mp)
       ELSE UNCHANGED <<pc, result>>

\* one pass of the loop over an action of type "collect"
CollectBody(a) ==
    IF current_position # a.tile THEN
        /\ Return(FALSE, NotAtPositionMsg(a.item, a.tile, current_position), total_mp)
        /\ UNCHANGED game_state
    ELSE
        /\ game_state' = collect_item_state(game_state, a.tile)
        /\ IF collect_item_value(game_state, a.tile) # a.item
           THEN Return(FALSE, NoItemMsg(a.item, a.tile), total_mp)
           ELSE UNCHANGED <<pc, result>>

\* the collect branch charging one MP for a Collect
Collect_costs_one ==
    /\ pc = "loop"
    /\ \E e \in Upcoming :
         /\ ParseElement(e).type = "collect"
         /\ action' = ParseElement(e)
         /\ CollectBody(ParseElement(e))
    /\ i' = i + 1
    /\ total_mp' = total_mp + 1
    /\ UNCHANGED <<scenario, path, open, current_position, verdict,
                   from_tile, to_tile, move_result, with_ladder, mp_cost, other, run>>

Collect ==
    /\ pc = "loop"
    /\ \E e \in Upcoming :
         /\ ParseElement(e).type = "collect"
         /\ action' = ParseElement(e)
         /\ CollectBody(ParseElement(e))
    /\ i' = i + 1
    /\ UNCHANGED <<scenario, path, open, current_position, total_mp, verdict,
                   from_tile, to_tile, move_result, with_ladder, mp_cost,
                   other, run>>

\* the clear branch reporting "tile not blocked" before it looks at the dynamite
ClearBody_not_blocked_first(a) ==
    /\ game_state' = use_dynamite_state(game_state, a.tile)
    /\ IF use_dynamite_value(game_state, a.tile) THEN UNCHANGED <<pc, result>>
       ELSE IF a.tile \notin game_state.blocked_tiles
       THEN Return(FALSE, NotBlockedMsg(a.tile), total_mp)
       ELSE IF Dynamite \notin game_state.collected_items
       THEN Return(FALSE, NoDynamiteMsg(a.tile), total_mp)
       ELSE Return(FALSE, DynamiteUsedMsg(a.tile), total_mp)

\* one pass of the loop over an action of type "clear"
ClearBody(a) ==
    /\ game_state' = use_dynamite_state(game_state, a.tile)
    /\ IF use_dynamite_value(game_state, a.tile) THEN UNCHANGED <<pc, result>>
       ELSE IF Dynamite \notin game_state.collected_items
       THEN Return(FALSE, NoDynamiteMsg(a.tile), total_mp)
       ELSE IF game_state.dynamite_used
       THEN Return(FALSE, DynamiteUsedMsg(a.tile), total_mp)
       ELSE Return(FALSE, NotBlockedMsg(a.tile), total_mp)

\* the clear branch working on the caller's own list of blocked tiles
Clear_on_callers_blocked ==
    /\ pc = "loop"
    /\ \E e \in Upcoming :
         /\ ParseElement(e).type = "clear"
         /\ action' = ParseElement(e)
         /\ ClearBody(ParseElement(e))
    /\ i' = i + 1
    /\ LET StillBlocked(t) == t \in game_state'.blocked_tiles
       IN scenario' = [scenario EXCEPT !.blocked = SelectSeq(@, StillBlocked)]
    /\ UNCHANGED <<path, open, current_position, total_mp, verdict,
                   from_tile, to_tile, move_result, with_ladder, mp_cost,
                   other, run>>

Clear ==
    /\ pc = "loop"
    /\ \E e \in Upcoming :
         /\ ParseElement(e).type = "clear"
         /\ action' = ParseElement(e)
         /\ ClearBody(ParseElement(e))
    /\ i' = i + 1
    /\ UNCHANGED <<scenario, path, open, current_position, total_mp, verdict,
                   from_tile, to_tile, move_result, with_ladder, mp_cost,
                   other, run>>

\* the checks after the loop, with the items of objective.requires instead of the key
EndOfPath_requires_list ==
    /\ pc = "loop"
    /\ PathEnded
    /\ IF current_position # A1 THEN Return(FALSE, EndMsg(current_position), total_mp)
       ELSE IF ~(SetOf(scenario.requires) \subseteq game_state.collected_items)
       THEN Return(FALSE, MissingKeyMsg, total_mp)
       ELSE Return(TRUE, ValidMsg, total_mp)
    /\ UNCHANGED <<scenario, path, open, i, action, current_position, total_mp,
                   game_state, verdict, from_tile, to_tile, move_result,
                   with_ladder, mp_cost,
                   other, run>>

\* the checks after the loop
EndOfPath ==
    /\ pc = "loop"
    /\ PathEnded
    /\ IF current_position # A1 THEN Return(FALSE, EndMsg(current_position), total_mp)
       ELSE IF ~game_state.has_key THEN Return(FALSE, MissingKeyMsg, total_mp)
       ELSE Return(TRUE, ValidMsg, total_mp)
    /\ UNCHANGED <<scenario, path, open, i, action, current_position, total_mp,
                   game_state, verdict, from_tile, to_tile, move_result, with_ladder, mp_cost,
                   other, run>>

\* is_optimal without the "if is_valid" guard
IsOptimal_ignores_validity(is_valid, mp, optimal_mp) ==
    optimal_mp # <<>> /\ <<mp>> = optimal_mp

\* is_optimal of validate_puzzle_solution
IsOptimal(is_valid, mp, optimal_mp) ==
    IF is_valid THEN optimal_mp # <<>> /\ <<mp>> = optimal_mp ELSE FALSE

\* validate_puzzle_solution, after validate_path has returned
Score ==
    /\ pc = "returned"
    /\ verdict' = [is_valid   |-> result.is_valid,
                   message    |-> result.message,
                   total_mp   |-> result.total_mp,
                   optimal_mp |-> scenario.optimal_mp,
                   is_optimal |-> IsOptimal(result.is_valid, result.total_mp,
                                            scenario.optimal_mp)]
    /\ pc' = "scored"
    /\ UNCHANGED <<scenario, path, open, i, action, current_position, total_mp,
                   game_state, result, from_tile, to_tile, move_result, with_ladder, mp_cost,
                   other, run>>

Next == ParseError \/ Start \/ Move \/ Collect \/ Clear \/ EndOfPath \/ Score

Spec == Init /\ [][Next]_vars

\* validate_puzzle_solution runs to its return: no step of it waits for anything
FairSpec == Spec /\ WF_vars(Next)

----------------------------------------------------------------------------
(* two calls of validate_puzzle_solution on one scenario_config *)

\* a path that collects the dynamite and the key on E1 and clears D1
PathClear ==
    <<E1, CollectText(E1, Dynamite), CollectText(E1, Key), ClearText(D1),
      D1, C1, B1, A1>>

\* the path_str of the two calls
TwoPaths == { << <<>> >>, <<E1, D1, C1, B1, A1>>, PathClear }

\* the locals of the call that has control
Evaluation ==
    [path |-> path, pc |-> pc, i |-> i, action |-> action,
     current_position |-> current_position, total_mp |-> total_mp,
     game_state |-> game_state, result |-> result, verdict |-> verdict]

\* the locals of a call that has not started
FreshEvaluation(p) ==
    [path |-> p, pc |-> "start", i |-> 0, action |-> None,
     current_position |-> None, total_mp |-> 0,
     game_state |-> None, result |-> None, verdict |-> None]

InitTwo ==
    /\ scenario \in Scenarios
    /\ path \in TwoPaths
    /\ open = FALSE
    /\ pc = "start"
    /\ i = 0
    /\ action = None
    /\ current_position = None
    /\ total_mp = 0
    /\ game_state = None
    /\ result = None
    /\ verdict = None
    /\ from_tile = None
    /\ to_tile = None
    /\ move_result = None
    /\ with_ladder = FALSE
    /\ mp_cost = 0
    /\ \E p \in TwoPaths : other = FreshEvaluation(p)
    /\ run = None

\* control passes from one call to the other; each keeps its own locals
Switch ==
    /\ other' = Evaluation
    /\ path' = other.path
    /\ pc' = other.pc
    /\ i' = other.i
    /\ action' = other.action
    /\ current_position' = other.current_position
    /\ total_mp' = other.total_mp
    /\ game_state' = other.game_state
    /\ result' = other.result
    /\ verdict' = other.verdict
    /\ UNCHANGED <<scenario, open, from_tile, to_tile, move_result, with_ladder,
                   mp_cost, run>>

NextTwo == Next \/ Switch

SpecTwo == InitTwo /\ [][NextTwo]_vars

----------------------------------------------------------------------------
(* is_valid_move and calculate_mp_cost on their own *)

\* the 61 tiles of the pyramid, by their canonical names
WellFormedTiles == UNION { {TileName(l, n) : n \in 1..LEVEL_MAX(l)} : l \in Levels }

\* texts that are no canonical tile name
OtherTexts ==
    { <<"A", "0">>, <<"A", "2">>, <<"B", "5">>, <<"E", "3", "3">>, <<"F", "1">>,
      <<"e", "1">>, <<"E">>, <<>>, <<"D", "0", "2">>, <<"A", "0", "1">>,
      <<"E", "0">>, <<"E", "1", " ">>, <<"E", "1", "\n">> }

InitMove ==
    /\ pc = "call"
    /\ from_tile \in WellFormedTiles \cup OtherTexts
    /\ to_tile \in WellFormedTiles \cup OtherTexts
    /\ with_ladder \in BOOLEAN
    /\ move_result = None
    /\ mp_cost = 0
    /\ scenario = None
    /\ path = <<>>
    /\ open = FALSE
    /\ i = 0
    /\ action = None
    /\ current_position = None
    /\ total_mp = 0
    /\ game_state = None
    /\ result = None
    /\ verdict = None
    /\ other = None
    /\ run = None

\* is_valid_move(from_tile, to_tile), then calculate_mp_cost of its move type
Classify ==
    /\ pc = "call"
    /\ move_result' = is_valid_move(from_tile, to_tile)
    /\ mp_cost' = calculate_mp_cost(is_valid_move(from_tile, to_tile)[2], with_ladder)
    /\ pc' = "classified"
    /\ UNCHANGED <<scenario, path, open, i, action, current_position, total_mp,
                   game_state, result, verdict, from_tile, to_tile, with_ladder, other, run>>

NextMove == Classify

SpecMove == InitMove /\ [][NextMove]_vars

----------------------------------------------------------------------------
(* BenchmarkRunner._run_scenario_for_model (src/src/benchmark.py) *)

\* range(4): the initial attempt and three retries
Attempts == 4

\* hint_1, hint_2, hint_3 of the scenario's "solution" entry
MaxHints == 3

\* valid, 8 MP
PathKey8 == <<E1, D1, CollectText(D1, Key), C1, B1, A1>>

\* valid, 9 MP
PathKey9 == <<E1, E2, D1, CollectText(D1, Key), C1, B1, A1>>

\* not valid: no dynamite collected
PathClearNoDynamite == <<E1, ClearText(D1)>>

\* response_json["path"] of the responses that pass validate_response_format
RunPaths == {PathKey8, PathKey9, PathClearNoDynamite}

\* what send_message gives: SystemExit after its own retries ("exit"), a
\* response_json that is None or empty ("none"), a JSON value that is no
\* object and not empty, such as [1] ("not_object"), an object that fails
\* validate_response_format ("bad_format"), or an object with a path
Responses ==
    {[kind |-> k, path |-> <<>>] : k \in {"exit", "none", "not_object", "bad_format"}}
        \cup {[kind |-> "object", path |-> p] : p \in RunPaths}

\* scenario_data["configuration"], the scenario_config of
\* validate_puzzle_solution; optimal_mp is what its own "solution" entry
\* holds, which a scenario file keeps beside "configuration", not inside it
RunConfigurations ==
    [blocked : {<<>>}, collectibles : {<<At(Key, D1)>>}, requires : {<<>>},
     optimal_mp : {<<>>, <<8>>}]

\* _evaluate_response's return value when the format is not valid
FormatFailure ==
    [is_valid_format |-> FALSE, is_valid_path |-> FALSE, total_mp |-> 0,
     is_optimal |-> FALSE]

InitRun ==
    /\ pc = "send"
    /\ scenario \in RunConfigurations
    /\ \E declared \in {<<>>, <<8>>} : \E hints \in 0..MaxHints :
         run = [declared_optimal_mp |-> declared,
                hints             |-> hints,
                stage             |-> "retry",
                retry             |-> 0,
                hint              |-> 0,
                response          |-> "none",
                evaluation        |-> None,
                interactions      |-> <<>>,
                requests          |-> 0,
                logged            |-> 0,
                reports           |-> 0,
                reported          |-> 0,
                final_result      |-> None]
    /\ path = <<>>
    /\ open = FALSE
    /\ i = 0
    /\ action = None
    /\ current_position = None
    /\ total_mp = 0
    /\ game_state = None
    /\ result = None
    /\ verdict = None
    /\ from_tile = None
    /\ to_tile = None
    /\ move_result = None
    /\ with_ladder = FALSE
    /\ mp_cost = 0
    /\ other = None

\* client.send_message, and _evaluate_response up to its call of
\* validate_puzzle_solution(path, config)
Request ==
    /\ pc = "send"
    /\ \E response \in Responses :
         /\ run' = [run EXCEPT !.requests = @ + 1,
                               !.response = response.kind,
                               !.evaluation = IF response.kind = "object"
                                              THEN None ELSE FormatFailure]
         /\ pc' = CASE response.kind = "exit" -> "exited"
                    [] response.kind = "object" -> "start"
                    [] OTHER -> "evaluated"
         /\ path' = response.path
    /\ UNCHANGED <<scenario, open, i, action, current_position, total_mp, game_state,
                   result, verdict, from_tile, to_tile, move_result, with_ladder,
                   mp_cost, other>>

\* _evaluate_response's return value after validate_puzzle_solution; the
\* locals of validate_path are gone (action, game_state, result and verdict
\* keep their last value until the next call assigns them)
Evaluated ==
    /\ pc = "scored"
    /\ run' = [run EXCEPT !.evaluation =
                   [is_valid_format |-> TRUE,
                    is_valid_path   |-> verdict.is_valid,
                    total_mp        |-> verdict.total_mp,
                    is_optimal      |-> verdict.is_optimal]]
    /\ pc' = "evaluated"
    /\ path' = <<>>
    /\ i' = 0
    /\ current_position' = None
    /\ total_mp' = 0
    /\ UNCHANGED <<scenario, open, action, game_state, result, verdict,
                   from_tile, to_tile, move_result, with_ladder, mp_cost, other>>

\* interaction_data
Interaction(number, type, evaluation) ==
    [interaction_number |-> number,
     interaction_type   |-> type,
     success            |-> evaluation.is_valid_path /\ evaluation.is_optimal,
     is_valid_format    |-> evaluation.is_valid_format,
     is_valid_path      |-> evaluation.is_valid_path,
     total_mp           |-> evaluation.total_mp,
     is_optimal         |-> evaluation.is_optimal]

IsValidPath(interaction) == interaction.is_valid_path

RECURSIVE FirstMaxTotal(_)
\* max(..., key=total_mp) of a list that is not empty: the first of the
\* interactions with the largest total_mp
FirstMaxTotal(list) ==
    IF Len(list) = 1 THEN list[1]
    ELSE LET rest == FirstMaxTotal(Tail(list))
         IN IF list[1].total_mp >= rest.total_mp THEN list[1] ELSE rest

\* the final result after the hints taken from the last interaction alone
FinalResult_of_last_interaction(interactions) ==
    LET last == interactions[Len(interactions)]
    IN IF last.is_valid_path
       THEN [success |-> TRUE, is_optimal |-> FALSE, total_mp |-> <<last.total_mp>>]
       ELSE [success |-> FALSE, is_optimal |-> FALSE, total_mp |-> <<>>]

\* the final result after the hints: the "best" of the valid interactions
FinalResult(interactions) ==
    LET valid == SelectSeq(interactions, IsValidPath)
    IN IF valid # <<>>
       THEN [success |-> TRUE, is_optimal |-> FALSE,
             total_mp |-> <<FirstMaxTotal(valid).total_mp>>]
       ELSE [success |-> FALSE, is_optimal |-> FALSE, total_mp |-> <<>>]

\* the interaction is appended and logged, the report written, final_result returned
Finish(interaction, final_result) ==
    /\ run' = [run EXCEPT !.interactions = Append(@, interaction),
                          !.logged = @ + 1,
                          !.reports = @ + 1,
                          !.reported = Len(run.interactions) + 1,
                          !.final_result = final_result]
    /\ pc' = "done"

\* the interaction is appended and logged, and the next request follows
GoOn(interaction, stage, retry, hint) ==
    /\ run' = [run EXCEPT !.interactions = Append(@, interaction),
                          !.logged = @ + 1,
                          !.stage = stage,
                          !.retry = retry,
                          !.hint = hint]
    /\ pc' = "send"

\* the rest of one pass of the retry loop, and what follows the loop when
\* it ends
RecordRetry ==
    /\ pc = "evaluated"
    /\ run.stage = "retry"
    /\ LET evaluation  == run.evaluation
           type        == IF run.retry = 0 THEN <<"initial", 0>> ELSE <<"retry", run.retry>>
           interaction == Interaction(1, type, evaluation)
       IN
       IF run.response = "not_object"
       THEN \* response_json.get on a value that is no dict: AttributeError
            pc' = "raised" /\ UNCHANGED run
       ELSE IF evaluation.is_valid_format /\ evaluation.is_valid_path
       THEN IF evaluation.is_optimal
            THEN Finish(interaction, [success |-> TRUE, is_optimal |-> TRUE,
                                      total_mp |-> <<evaluation.total_mp>>])
            ELSE IF run.hints = 0
            THEN Finish(interaction, FinalResult(Append(run.interactions, interaction)))
            ELSE GoOn(interaction, "hints", run.retry, 0)
       ELSE IF run.retry + 1 < Attempts
       THEN GoOn(interaction, "retry", run.retry + 1, 0)
       ELSE Finish(interaction, [success |-> FALSE, is_optimal |-> FALSE,
                                 total_mp |-> <<>>])
    /\ UNCHANGED <<scenario, path, open, i, action, current_position, total_mp,
                   game_state, result, verdict, from_tile, to_tile, move_result,
                   with_ladder, mp_cost, other>>

\* the rest of one pass of the hints loop, and what follows the loop when
\* it ends
RecordHint ==
    /\ pc = "evaluated"
    /\ run.stage = "hints"
    /\ LET evaluation  == run.evaluation
           interaction == Interaction(run.hint + 2, <<"hint", run.hint + 1>>, evaluation)
       IN
       IF run.response = "not_object"
       THEN pc' = "raised" /\ UNCHANGED run
       ELSE IF evaluation.is_valid_path /\ evaluation.is_optimal
       THEN Finish(interaction, [success |-> TRUE, is_optimal |-> TRUE,
                                 total_mp |-> <<evaluation.total_mp>>])
       ELSE IF run.hint + 1 < run.hints
       THEN GoOn(interaction, "hints", run.retry, run.hint + 1)
       ELSE Finish(interaction, FinalResult(Append(run.interactions, interaction)))
    /\ UNCHANGED <<scenario, path, open, i, action, current_position, total_mp,
                   game_state, result, verdict, from_tile, to_tile, move_result,
                   with_ladder, mp_cost, other>>

NextRun ==
    \/ Request \/ Start \/ Move \/ Collect \/ Clear \/ EndOfPath \/ Score
    \/ Evaluated \/ RecordRetry \/ RecordHint

SpecRun == InitRun /\ [][NextRun]_vars

\* the run goes on whenever it can: no step of it waits for another process
FairRun == SpecRun /\ WF_vars(NextRun)

----------------------------------------------------------------------------
(* the move rules, called on their own and called by validate_path *)

SpecAll == (Init \/ InitMove) /\ [][Next \/ NextMove]_vars

----------------------------------------------------------------------------
(* Claims *)

\* C1: for every well-formed tile t of the pyramid, is_valid_move(t, t) is
\* illegal: valid = FALSE with cost 0; in particular for the apex tile A1.
C1_NoSelfLoop ==
    (pc = "classified" /\ from_tile \in WellFormedTiles /\ to_tile = from_tile)
        => (move_result[1] = FALSE /\ move_result[3] = 0)

Returned == pc \in {"returned", "scored"}

NoBlocked == scenario.blocked = <<>>

KeyAtD1 == \E k \in 1..Len(scenario.collectibles) : scenario.collectibles[k] = At(Key, D1)

PathCollectBeforeArrival == <<E1, CollectText(D1, Key), D1, C1, B1, A1>>

PathCollectAfterArrival == <<E1, D1, CollectText(D1, Key), C1, B1, A1>>

\* C2 as stated: the path "E1|D1:key|D1|C1|B1|A1", with no blocked tiles and a
\* key at D1, is valid, with total_mp the cost of its Moves alone (8).
C2_CollectBeforeArrivalValid ==
    (Returned /\ ~open /\ path = PathCollectBeforeArrival /\ NoBlocked /\ KeyAtD1)
        => (result.is_valid = TRUE /\ result.total_mp = 8)

\* C2 amended: with no blocked tiles and a key at D1, "E1|D1:key|D1|C1|B1|A1"
\* fails at its second token, the Collect issued while the actor is still on E1,
\* with the not-at-that-position message and total_mp = 0; the path with the
\* Collect after the arrival at D1, "E1|D1|D1:key|C1|B1|A1", is valid with
\* total_mp = 8, the cost of its Moves alone (the Collect adds 0).
C2_CollectOnlyWhereStanding ==
    /\ (Returned /\ ~open /\ path = PathCollectBeforeArrival /\ NoBlocked /\ KeyAtD1)
          => /\ result = [is_valid |-> FALSE,
                          message  |-> NotAtPositionMsg(Key, D1, E1),
                          total_mp |-> 0]
             /\ i = 2
    /\ (Returned /\ ~open /\ path = PathCollectAfterArrival /\ NoBlocked /\ KeyAtD1)
          => /\ result = [is_valid |-> TRUE, message |-> ValidMsg, total_mp |-> 8]
             /\ i = 6

C2_Witness ==
    /\ Returned /\ ~open /\ path = PathCollectAfterArrival /\ NoBlocked /\ KeyAtD1
    /\ result.is_valid = TRUE
    /\ Key \in game_state.collected_items

PathNoKey == <<E1, D1, C1, B1, A1>>

\* C3: the path "E1|D1|C1|B1|A1", with no blocked tiles and no collectibles,
\* is invalid with the missing-key message and total_mp = 8.
C3_NoKeyPathCostsEight ==
    (Returned /\ ~open /\ path = PathNoKey /\ NoBlocked /\ scenario.collectibles = <<>>)
        => result = [is_valid |-> FALSE, message |-> MissingKeyMsg, total_mp |-> 8]

C3_Witness ==
    /\ Returned /\ ~open /\ path = PathNoKey /\ NoBlocked /\ scenario.collectibles = <<>>
    /\ current_position = A1
    /\ i = 5

\* the states in which the loop has taken up at least one action
InLoop == pc \in {"loop", "returned", "scored"} /\ i >= 1

\* C4: a Move whose destination is in the current blocked set fails at that
\* action with the blocked-tile message naming the tile and the 1-based
\* position of the action, and total_mp as accrued before it, whatever the
\* current position (none yet, or one the move would be illegal from); when
\* that action is the second one, the step is 2 and total_mp is 0.  (The
\* loop changes neither i, total_mp nor the blocked set once it has returned,
\* so the state after the action shows them as the action found them.)
C4_BlockedDestinationFails ==
    /\ (InLoop /\ action.type = "move" /\ action.tile \in game_state.blocked_tiles)
          => /\ Returned
             /\ result = [is_valid |-> FALSE,
                          message  |-> BlockedMsg(action.tile, i),
                          total_mp |-> total_mp]
    /\ (InLoop /\ i = 2 /\ action.type = "move"
            /\ action.tile \in game_state.blocked_tiles)
          => (result.message.step = 2 /\ result.total_mp = 0)
    /\ InLoop => game_state.blocked_tiles \subseteq SetOf(scenario.blocked)

\* a blocked destination met as the first action, on a tile that is no start tile
C4_Witness ==
    /\ Returned /\ i = 1
    /\ action.type = "move"
    /\ result.message = BlockedMsg(action.tile, 1)
    /\ parse_tile(action.tile)[1] # "E"

\* a token of the path grammar: LEVEL+index, LEVEL+index:identifier, clear:LEVEL+index
WellFormedToken(e) ==
    LET a == ParseElement(e) IN
    /\ MatchesTileFormat(a.tile)
    /\ a.type = "collect" => (a.item # <<>> /\ ~HasColon(a.item))

PathMalformed ==
    path = << <<>> >> \/ \E k \in 1..Len(path) : ~WellFormedToken(path[k])

\* C5 as stated: a path that is empty or holds a malformed token anywhere fails
\* with the path-parsing error and total_mp = 0 before any action is replayed.
C5_MalformedTokenIsParseError ==
    (Returned /\ ~open /\ PathMalformed)
        => (result.message = PathParsingError /\ result.total_mp = 0 /\ i = 0)

\* C5 amended: the empty path expression fails with the path-parsing error and
\* total_mp = 0 before any action is replayed; a path that is not empty never
\* fails with a path-parsing error: a malformed token is parsed into an action
\* like any other, and a Move token that is no tile fails the evaluation when
\* the replay reaches it, with the blocked-tile, invalid-start or invalid-move
\* message and the total_mp accrued before it.
C5_OnlyEmptyPathIsParseError ==
    /\ (Returned /\ ~open /\ path = << <<>> >>)
          => /\ result = [is_valid |-> FALSE, message |-> PathParsingError, total_mp |-> 0]
             /\ i = 0
             /\ game_state = None
    /\ (Returned /\ (open \/ path # << <<>> >>))
          => (result.message # PathParsingError /\ i >= 1)
    /\ (InLoop /\ action.type = "move" /\ ~ParseTileOk(action.tile))
          => /\ Returned
             /\ result.is_valid = FALSE
             /\ result.total_mp = total_mp
             /\ result.message \in {BlockedMsg(action.tile, i),
                                    StartInvalidMsg(action.tile),
                                    InvalidMoveMsg(current_position, action.tile, i)}

C5_Witness ==
    /\ Returned /\ ~open
    /\ path = <<E1, D1, <<"X", "9">>, C1>>
    /\ result.message = InvalidMoveMsg(D1, <<"X", "9">>, 3)
    /\ result.total_mp = 2

\* a first action that is a Move onto a well-formed E-level tile
GoodStart(a) == a.type = "move" /\ ParseTileOk(a.tile) /\ parse_tile(a.tile)[1] = "E"

\* C6: if the first action is not a Move, or is a Move onto a tile that is not
\* a well-formed E-level tile, validate_path returns is_valid = FALSE with
\* total_mp = 0 and no later action is executed; no path with such a first
\* action is reported valid.
C6_FirstActionMustBeMoveOntoE ==
    /\ (InLoop /\ i = 1 /\ ~GoodStart(action))
          => /\ Returned
             /\ result.is_valid = FALSE
             /\ result.total_mp = 0
             /\ current_position = None
             /\ game_state = GameState(scenario.blocked, scenario.collectibles)
    /\ (InLoop /\ ~open /\ ~GoodStart(ParseElement(path[1])))
          => (i = 1 /\ Returned /\ result.is_valid = FALSE)
    /\ (InLoop /\ i = 1 /\ pc = "loop") => GoodStart(action)

\* a path given whole, of several elements, that starts on a D-level tile
C6_Witness ==
    /\ Returned /\ ~open /\ Len(path) > 1
    /\ i = 1
    /\ action.type = "move"
    /\ result.message = StartLevelMsg(action.tile)

\* the step by which the loop ends with every action consumed and validate_path
\* returns from the checks that follow it
EndStep == pc = "loop" /\ pc' = "returned" /\ i' = i

\* C7: after all actions are consumed without error, validate_path returns
\* is_valid = TRUE if and only if the current tile is exactly A1 and the key has
\* been collected; the end-tile check is made first; the key is required
\* whatever objective.requires holds.
C7_ValidIffAtApexWithKey ==
    [][EndStep =>
         /\ result'.is_valid = (current_position = A1 /\ Key \in game_state.collected_items)
         /\ current_position # A1 => result'.message = EndMsg(current_position)
         /\ (current_position = A1 /\ Key \notin game_state.collected_items)
               => result'.message = MissingKeyMsg
         /\ result'.total_mp = total_mp]_vars

\* a path reported valid although objective.requires names an item never collected
C7_Witness ==
    /\ Returned
    /\ result.is_valid = TRUE
    /\ current_position = A1
    /\ Key \in game_state.collected_items
    /\ scenario.requires = <<Ladder>>
    /\ Ladder \notin game_state.collected_items

\* C8: is_optimal = TRUE exactly when the path is valid, the scenario declares
\* an optimal_mp, and total_mp equals it.
C8_OptimalIffValidAndEqual ==
    pc = "scored" =>
        /\ verdict.is_optimal =
              (result.is_valid /\ scenario.optimal_mp # <<>>
                  /\ scenario.optimal_mp = <<result.total_mp>>)
        /\ verdict.is_valid = result.is_valid
        /\ verdict.total_mp = result.total_mp

\* an invalid path whose partial cost equals the declared optimal_mp
C8_Witness ==
    /\ pc = "scored"
    /\ result.is_valid = FALSE
    /\ result.total_mp > 0
    /\ scenario.optimal_mp = <<result.total_mp>>
    /\ verdict.is_optimal = FALSE

\* a step of the loop that takes up a Clear action
ClearStep == pc = "loop" /\ i' = i + 1 /\ action'.type = "clear"

C10_ClearFailureCause ==
    [][(ClearStep /\ pc' = "returned")
          => /\ result'.is_valid = FALSE
             /\ result'.total_mp = total_mp
             /\ result'.message =
                  IF Dynamite \notin game_state.collected_items
                  THEN NoDynamiteMsg(action'.tile)
                  ELSE IF game_state.dynamite_used
                  THEN DynamiteUsedMsg(action'.tile)
                  ELSE NotBlockedMsg(action'.tile)
             /\ (result'.message = NotBlockedMsg(action'.tile))
                   => action'.tile \notin game_state.blocked_tiles
             /\ game_state' = game_state]_vars

\* 'no dynamite collected' reported for a target that is not blocked either
C10_Witness ==
    /\ Returned
    /\ i > 1
    /\ action.type = "clear"
    /\ result.message = NoDynamiteMsg(action.tile)
    /\ action.tile \notin game_state.blocked_tiles


\* a step of the loop that makes a Move after the starting one, and the
\* category is_valid_move gives it
MoveStep ==
    /\ pc = "loop" /\ pc' = "loop" /\ i' = i + 1
    /\ action'.type = "move"
    /\ current_position # None

InwardTypes == {"inward", "inward_to_peak"}

\* C11: a Move classified inward or inward_to_peak adds 1 if the ladder has
\* been collected earlier in the path and 2 otherwise: with the ladder it adds
\* exactly 1 less; a Move of every other legal category adds 1 whether or not
\* the ladder is held; collecting the ladder changes nothing of the cost
\* accrued by the moves made before it.
C11_LadderDiscountAtMoveTime ==
    [][/\ MoveStep =>
            total_mp' - total_mp =
                IF is_valid_move(current_position, action'.tile)[2] \in InwardTypes
                THEN (IF Ladder \in game_state.collected_items THEN 1 ELSE 2)
                ELSE 1
       /\ (pc = "loop" /\ i' = i + 1 /\ action'.type = "collect")
            => total_mp' = total_mp]_vars

\* E1|D1|E1|E1:ladder|D1: the inward move made before the ladder was collected
\* still counts 2, the same move made after it counts 1
C11_Witness ==
    /\ pc = "loop" /\ i = 5
    /\ action.type = "move"
    /\ current_position = D1
    /\ Ladder \in game_state.collected_items
    /\ total_mp = 4


\* a step of the loop that takes up a Collect or a Clear action
NonMoveStep == pc = "loop" /\ i' = i + 1 /\ action'.type \in {"collect", "clear"}

\* C12: a Collect or Clear action, successful or failing, changes neither
\* total_mp nor the current tile; when it fails, the total_mp returned is the
\* one accrued before it.
C12_CollectAndClearAreFree ==
    [][NonMoveStep =>
         /\ total_mp' = total_mp
         /\ current_position' = current_position
         /\ game_state'.position = game_state.position
         /\ pc' = "returned" => result'.total_mp = total_mp]_vars

\* a successful Clear made after moves that cost something
C12_Witness ==
    /\ pc = "loop" /\ i > 1
    /\ action.type = "clear"
    /\ game_state.dynamite_used
    /\ total_mp > 0


\* the step of the loop whose action violates a rule
FailStep == pc = "loop" /\ pc' = "returned" /\ i' = i + 1

PathFailsAtFourth == <<E1, D1, C1, <<"D", "1", ":">>, B1>>

\* C13: at the first action that violates a rule validate_path returns
\* is_valid = FALSE with total_mp as accrued by the Moves made before it (the
\* failing action adds nothing and moves nothing); after the return the
\* evaluation takes up no further action and changes nothing of its state.
\* With no blocked tiles, "E1|D1|C1|D1:|B1" fails at its fourth action with
\* total_mp = 2 + 2.
C13_FailureIsTerminal ==
    [][/\ FailStep =>
            /\ result'.is_valid = FALSE
            /\ result'.total_mp = total_mp
            /\ total_mp' = total_mp
            /\ current_position' = current_position
       /\ pc \in {"returned", "scored"} =>
            /\ UNCHANGED <<i, action, current_position, total_mp, game_state, result>>
            /\ pc' = "scored"
       /\ (pc' = "returned" /\ ~open /\ path = PathFailsAtFourth /\ NoBlocked) =>
            (i' = 4 /\ result'.is_valid = FALSE /\ result'.total_mp = 4)]_vars

\* a failure in the middle of a path, with a cost accrued and an action left over
C13_Witness ==
    /\ Returned /\ ~open /\ path = PathFailsAtFourth /\ NoBlocked
    /\ i = 4 /\ i < Len(path)
    /\ result.is_valid = FALSE
    /\ result.total_mp = 4
    /\ current_position = C1


\* C14 as stated: on success the verdict's reason/message is the empty string.
C14_SuccessMessageEmpty ==
    (Returned /\ result.is_valid)
        => /\ result.message.kind = ""
           /\ pc = "scored" => verdict.message.kind = ""

\* C14 amended: on success the verdict is (valid = TRUE, message = "Path is
\* valid", total_cost): validate_path returns the fixed text "Path is valid",
\* not the empty string, and validate_puzzle_solution hands it on unchanged;
\* no failure carries that text or an empty one.
C14_SuccessMessageIsPathIsValid ==
    /\ (Returned /\ result.is_valid)
          => /\ result.message.kind = "Path is valid"
             /\ result.total_mp = total_mp
             /\ pc = "scored" =>
                  /\ verdict.is_valid = TRUE
                  /\ verdict.message.kind = "Path is valid"
                  /\ verdict.total_mp = total_mp
    /\ (Returned /\ ~result.is_valid)
          => result.message.kind \notin {"Path is valid", ""}

C14_Witness ==
    /\ pc = "scored"
    /\ verdict.is_valid = TRUE
    /\ verdict.message.kind = "Path is valid"
    /\ verdict.total_mp > 0


\* C15: for every path string and scenario one evaluation ends, after at most
\* one pass over the actions (each step of the loop takes up the next action,
\* none twice), with exactly one verdict, valid or failed: the result, once
\* returned, and the verdict, once made, never change.
C15_OnePassOneVerdict ==
    /\ <>(pc = "scored")
    /\ [][/\ pc = "loop" => (i' = i + 1 \/ (i' = i /\ pc' = "returned"))
          /\ i' <= IF open THEN MaxLen ELSE Len(path)
          /\ pc' # "returned" => UNCHANGED result
          /\ pc' # "scored" => UNCHANGED verdict
          /\ pc' # pc => <<pc, pc'>> \in {<<"start", "loop">>, <<"start", "returned">>,
                                         <<"loop", "returned">>, <<"returned", "scored">>}
          /\ pc' = "scored" =>
               /\ verdict'.is_valid \in BOOLEAN
               /\ verdict'.is_valid = result.is_valid
               /\ verdict'.message = result.message]_vars


\* a verdict for a path with a Collect token that names no tile
C15_Witness ==
    /\ pc = "scored" /\ ~open
    /\ path = <<E1, CollectText(<<>>, Key), D1>>
    /\ i = 2
    /\ verdict.is_valid = FALSE


SameEvaluation(a, b) ==
    /\ a.path = b.path /\ a.pc = b.pc /\ a.i = b.i
    /\ a.action = b.action
    /\ a.current_position = b.current_position
    /\ a.total_mp = b.total_mp
    /\ a.game_state = b.game_state
    /\ a.result = b.result
    /\ a.verdict = b.verdict

DynamiteAndKeyAtE1 == scenario.collectibles = <<At(Dynamite, E1), At(Key, E1)>>

OnlyD1Blocked == scenario.blocked = <<D1>>

\* C16: two evaluations over one scenario, their steps interleaved in any
\* order: no step changes the scenario configuration (blocked list and
\* collectibles included, also when a Clear succeeds); an evaluation starts
\* from a game state built from the scenario alone; no step of one evaluation
\* changes anything of the other; two evaluations of the same path that are
\* at the same step are in the same state, so they end with the same
\* verdict; and the path that clears D1 is valid with 8 MP for each of the
\* two evaluations, as it is for one evaluation alone.
C16_EvaluationsAreIndependent ==
    /\ []((other.path = path /\ other.pc = pc /\ other.i = i)
            => SameEvaluation(other, Evaluation))
    /\ []((pc = "scored" /\ path = PathClear /\ OnlyD1Blocked /\ DynamiteAndKeyAtE1)
            => (verdict.is_valid /\ verdict.message = ValidMsg /\ verdict.total_mp = 8))
    /\ []((other.pc = "scored" /\ other.path = PathClear /\ OnlyD1Blocked
           /\ DynamiteAndKeyAtE1)
            => (other.verdict.is_valid /\ other.verdict.message = ValidMsg
                /\ other.verdict.total_mp = 8))
    /\ [][/\ scenario' = scenario
          /\ (pc = "start" /\ pc' = "loop" /\ i' = 0) =>
                /\ game_state'.blocked_tiles = SetOf(scenario.blocked)
                /\ game_state'.collectibles = scenario.collectibles
                /\ game_state'.collected_items = {}
                /\ ~game_state'.dynamite_used
                /\ ~game_state'.has_key
          /\ \/ SameEvaluation(other', other)
             \/ SameEvaluation(other', Evaluation) /\ SameEvaluation(Evaluation', other)]_vars

\* one evaluation has cleared D1, the other, stopped before its own Clear,
\* still has D1 blocked, and so has the scenario
C16_Witness ==
    /\ pc = "loop" /\ path = PathClear /\ i = 4
    /\ other.pc = "loop" /\ other.path = PathClear /\ other.i = 3
    /\ OnlyD1Blocked
    /\ game_state.dynamite_used /\ game_state.blocked_tiles = {}
    /\ other.game_state.blocked_tiles = {D1}


Classified == pc = "classified" /\ from_tile \in WellFormedTiles /\ to_tile \in WellFormedTiles

LevelOf(tile) == Ord(tile[1])

IndexOf(tile) == IntOf(Tail(tile))

\* C17: for well-formed tiles, from on level C, D or E and to on the level
\* one step closer to the apex, is_valid_move is legal exactly when to.index
\* is the ceiling of from.index / 2 (2*to.index - 1 <= from.index <=
\* 2*to.index); when legal the category is 'inward' and the base cost 2.
C17_InwardIffCeilingHalf ==
    (Classified /\ from_tile[1] \in {"C", "D", "E"}
       /\ LevelOf(to_tile) = LevelOf(from_tile) - 1)
    => /\ move_result[1] <=> (/\ 2 * IndexOf(to_tile) - 1 <= IndexOf(from_tile)
                              /\ IndexOf(from_tile) <= 2 * IndexOf(to_tile))
       /\ move_result[1] => (move_result[2] = "inward" /\ move_result[3] = 2)
       /\ ~move_result[1] => move_result[3] = 0

\* an odd index: E31 to D16, legal, and the ceiling differs from the floor
C17_Witness ==
    /\ Classified
    /\ from_tile = TileName("E", 31) /\ to_tile = TileName("D", 16)
    /\ move_result = <<TRUE, "inward", 2>>

\* C18: for well-formed tiles, from on level B, C or D and to on the level
\* one step farther from the apex, is_valid_move is legal exactly when
\* to.index = 2*from.index - 1 (category 'outward_left') or to.index =
\* 2*from.index (category 'outward_right'), with cost 1 in both cases and
\* also after calculate_mp_cost; both target indices lie within the capacity
\* of the outer level.
C18_OutwardLeftOrRight ==
    (Classified /\ from_tile[1] \in {"B", "C", "D"}
       /\ LevelOf(to_tile) = LevelOf(from_tile) + 1)
    => /\ move_result[1] <=> (\/ IndexOf(to_tile) = 2 * IndexOf(from_tile) - 1
                              \/ IndexOf(to_tile) = 2 * IndexOf(from_tile))
       /\ IndexOf(to_tile) = 2 * IndexOf(from_tile) - 1
            => (move_result = <<TRUE, "outward_left", 1>> /\ mp_cost = 1)
       /\ IndexOf(to_tile) = 2 * IndexOf(from_tile)
            => (move_result = <<TRUE, "outward_right", 1>> /\ mp_cost = 1)
       /\ ~move_result[1] => (move_result[3] = 0 /\ mp_cost = 0)
       /\ 2 * IndexOf(from_tile) <= LEVEL_MAX(to_tile[1])
       /\ TileName(to_tile[1], 2 * IndexOf(from_tile) - 1) \in WellFormedTiles
       /\ TileName(to_tile[1], 2 * IndexOf(from_tile)) \in WellFormedTiles

\* the last tile of D to the last tile of E: the right child at the capacity
C18_Witness ==
    /\ Classified
    /\ from_tile = TileName("D", 16) /\ to_tile = TileName("E", 32)
    /\ move_result = <<TRUE, "outward_right", 1>>
    /\ mp_cost = 1

\* C19: a move from A1 to each of B1..B4 is legal and costs 1, with or
\* without the ladder; a move from each of B1..B4 to A1 is legal and costs 2
\* without the ladder and 1 with it; the category is one of 'outward_left',
\* 'outward_right', 'outward_from_peak' for the former and one of 'inward',
\* 'inward_to_peak' for the latter.
C19_ApexMoves ==
    /\ (Classified /\ from_tile = A1 /\ to_tile[1] = "B")
         => /\ move_result[1]
            /\ move_result[2] \in {"outward_left", "outward_right", "outward_from_peak"}
            /\ move_result[3] = 1
            /\ mp_cost = 1
    /\ (Classified /\ from_tile[1] = "B" /\ to_tile = A1)
         => /\ move_result[1]
            /\ move_result[2] \in InwardTypes
            /\ move_result[3] = 2
            /\ mp_cost = IF with_ladder THEN 1 ELSE 2

\* B4 to A1 with the ladder: 'inward_to_peak', reduced to 1
C19_Witness ==
    /\ Classified
    /\ from_tile = TileName("B", 4) /\ to_tile = A1
    /\ with_ladder
    /\ move_result = <<TRUE, "inward_to_peak", 2>>
    /\ mp_cost = 1

LevelGap(a, b) ==
    IF LevelOf(a) >= LevelOf(b) THEN LevelOf(a) - LevelOf(b) ELSE LevelOf(b) - LevelOf(a)

\* the last action was a Move between two tiles two or more levels apart
JumpInPath ==
    /\ InLoop
    /\ action.type = "move"
    /\ current_position # None
    /\ ParseTileOk(current_position) /\ ParseTileOk(action.tile)
    /\ LevelGap(current_position, action.tile) >= 2

\* C20: for two well-formed tiles whose levels differ by two or more,
\* is_valid_move returns illegal, 'invalid_move', with cost 0, and
\* calculate_mp_cost gives 0; and the step of validate_path that takes up a
\* Move from the current tile to a tile two or more levels away returns the
\* path as not valid, with the cost up to that Move and the position kept,
\* and the path is then scored as not valid.
C20_NoMultiLevelJump ==
    /\ []((Classified /\ LevelGap(from_tile, to_tile) >= 2)
            => (move_result = <<FALSE, "invalid_move", 0>> /\ mp_cost = 0))
    /\ []((JumpInPath /\ pc = "scored") => (~verdict.is_valid /\ ~verdict.is_optimal))
    /\ [][(/\ pc = "loop" /\ i' = i + 1
           /\ action'.type = "move"
           /\ current_position # None
           /\ ParseTileOk(action'.tile)
           /\ LevelGap(current_position, action'.tile) >= 2)
          => /\ pc' = "returned"
             /\ ~result'.is_valid
             /\ result'.total_mp = total_mp
             /\ current_position' = current_position
             /\ result'.message \in {InvalidMoveMsg(current_position, action'.tile, i'),
                                     BlockedMsg(action'.tile, i')}]_vars

\* the path E1, D1, B1: the jump from D1 to B1, whose index is the ceiling of
\* half, is refused
C20_Witness ==
    /\ JumpInPath
    /\ pc = "scored"
    /\ current_position = D1 /\ action.tile = B1
    /\ result.message = InvalidMoveMsg(D1, B1, 3)
    /\ total_mp = 2


\* the indices m with a clockwise move from (level, n) to (level, m)
ClockwiseTargets(level, n) ==
    { m \in 1..LEVEL_MAX(level) :
        is_valid_move(TileName(level, n), TileName(level, m)) = <<TRUE, "clockwise", 1>> }

RECURSIVE ClockwiseAfter(_, _, _)
\* the index reached from (level, n) by k clockwise moves
ClockwiseAfter(level, n, k) ==
    IF k = 0 THEN n
    ELSE LET at == ClockwiseAfter(level, n, k - 1)
         IN CHOOSE m \in ClockwiseTargets(level, at) : TRUE

LetterThenIndexInRange(text) ==
    /\ Len(text) >= 2
    /\ text[1] \in Levels
    /\ \A k \in 2..Len(text) : text[k] \in Digits
    /\ IntOf(Tail(text)) >= 1
    /\ IntOf(Tail(text)) <= LEVEL_MAX(text[1])

\* C22: parse_tile accepts a text exactly when the text is one letter in
\* A..E followed by a decimal integer n with 1 <= n <= capacity(level), and
\* then returns (level, n); is_valid_move(t, t) is 'invalid_tile' exactly when
\* parse_tile raises on t; and parsing the canonical text of a tile
\* (level, n) returns (level, n).
C22_ParseTileAcceptsExactlyTileTexts ==
    (pc = "classified" /\ to_tile = from_tile) =>
        /\ (move_result[2] # "invalid_tile") <=> ParseTileOk(from_tile)
        /\ ParseTileOk(from_tile) <=> LetterThenIndexInRange(from_tile)
        /\ ParseTileOk(from_tile) =>
             parse_tile(from_tile) = <<from_tile[1], IntOf(Tail(from_tile))>>
        /\ \A l \in Levels : \A n \in 1..LEVEL_MAX(l) :
             /\ ParseTileOk(TileName(l, n))
             /\ parse_tile(TileName(l, n)) = <<l, n>>
        /\ \A l \in Levels :
             /\ ~ParseTileOk(TileName(l, 0))
             /\ ~ParseTileOk(TileName(l, LEVEL_MAX(l) + 1))


\* the step takes up a Collect action
CollectStep == pc = "loop" /\ i' = i + 1 /\ action'.type = "collect"

RegisteredAt(item, tile) ==
    \E k \in 1..Len(scenario.collectibles) : scenario.collectibles[k] = At(item, tile)

\* C23: a Collect tile:item goes through only if the actor stands on that
\* tile, the item is registered at that tile and it has not been collected;
\* a Collect that names another tile, an item not registered there or an item
\* collected earlier returns the path as not valid; every step adds at most
\* one item to the collected items, an item registered at the tile the actor
\* stands on and not collected before, and only a Collect step adds one.
C23_CollectOnlyHereOnlyOnce ==
    [][/\ CollectStep =>
            /\ pc' = "loop" =>
                 /\ current_position = action'.tile
                 /\ RegisteredAt(action'.item, action'.tile)
                 /\ action'.item \notin game_state.collected_items
                 /\ game_state'.collected_items =
                        game_state.collected_items \cup {action'.item}
            /\ (\/ current_position # action'.tile
                \/ ~RegisteredAt(action'.item, action'.tile)
                \/ action'.item \in game_state.collected_items)
                 => (pc' = "returned" /\ ~result'.is_valid /\ result'.total_mp = total_mp)
            /\ \A it \in game_state'.collected_items \ game_state.collected_items :
                 /\ RegisteredAt(it, current_position)
                 /\ current_position = action'.tile
            /\ Cardinality(game_state'.collected_items \ game_state.collected_items) <= 1
            /\ game_state.collected_items \subseteq game_state'.collected_items
       /\ (pc = "loop" /\ i' = i + 1 /\ action'.type # "collect")
            => game_state'.collected_items = game_state.collected_items]_vars

\* the key, collected on D1 earlier in the path, is asked for on D1 again
C23_Witness ==
    /\ InLoop /\ Returned
    /\ action.type = "collect"
    /\ current_position = D1 /\ action.tile = D1 /\ action.item = Key
    /\ Key \in game_state.collected_items
    /\ ~result.is_valid
    /\ result.message = NoItemMsg(Key, D1)


C25_DeclaredOptimumIsRecognised ==
    /\ (pc = "evaluated" /\ run.response = "object"
          /\ run.evaluation.is_valid_path
          /\ run.declared_optimal_mp = <<run.evaluation.total_mp>>)
         => run.evaluation.is_optimal
    /\ (pc = "done"
          /\ \E k \in 1..Len(run.interactions) :
               /\ run.interactions[k].is_valid_path
               /\ run.declared_optimal_mp = <<run.interactions[k].total_mp>>)
         => (run.final_result.success /\ run.final_result.is_optimal)


InRun == pc \in {"send", "start", "loop", "returned", "scored", "evaluated", "done",
                 "raised", "exited"}

\* the requests of a run are counted as the claim counts them
RequestsAreBounded ==
    /\ run.stage = "retry" => run.requests <= Attempts
    /\ run.requests <= Attempts + run.hints
    /\ run.requests <= 7
    /\ run.stage = "hints" => run.requests - (run.retry + 1) <= run.hints
    \* no request follows a valid path in the retry phase
    /\ (run.stage = "retry" /\ pc # "done")
         => \A k \in 1..Len(run.interactions) : ~run.interactions[k].is_valid_path
    \* the hints follow a retry phase that ended on a valid path that is not optimal
    /\ run.stage = "hints"
         => /\ run.interactions[run.retry + 1].is_valid_path
            /\ ~run.interactions[run.retry + 1].is_optimal
    \* a valid and optimal response is the last one, and the run has returned
    /\ \A k \in 1..Len(run.interactions) :
         (run.interactions[k].is_valid_path /\ run.interactions[k].is_optimal)
            => (k = Len(run.interactions) /\ pc = "done"
                /\ run.final_result.is_optimal)

\* C26: one run sends at most 4 requests in the retry phase, stops
\* retrying at the first valid path, sends hint requests (at most one per
\* hint, at most 3) only after a retry phase that ended on a valid path that
\* is not optimal, returns at once on the first valid and optimal response,
\* makes at most 7 requests in all, and always comes to its end with a final
\* result.
C26_RunIsBoundedAndReturns ==
    /\ [](InRun => RequestsAreBounded)
    /\ <>(pc = "done")


SomeValidInteraction ==
    \E k \in 1..Len(run.interactions) : run.interactions[k].is_valid_path

\* C27: when _run_scenario_for_model has returned (optimal during the
\* retries, all retries invalid, optimal after a hint, hints exhausted), the
\* report has been created exactly once, with every interaction of the run,
\* each request having been appended and logged; before the return no report
\* exists; and the final result has success = TRUE exactly when some
\* interaction of the run was a valid path.
C27_OneReportAtEveryReturn ==
    /\ pc = "done" =>
         /\ run.reports = 1
         /\ run.reported = Len(run.interactions)
         /\ run.logged = Len(run.interactions)
         /\ Len(run.interactions) = run.requests
         /\ run.final_result.success <=> SomeValidInteraction
         /\ run.final_result.is_optimal => run.final_result.success
    /\ (InRun /\ pc # "done") => run.reports = 0

\* hints exhausted: the retry phase ended on a valid path, the last hint
\* response was no valid path
C27_Witness ==
    /\ pc = "done"
    /\ run.stage = "hints" /\ run.hints = 3
    /\ Len(run.interactions) = 5
    /\ run.interactions[2].is_valid_path
    /\ ~run.interactions[5].is_valid_path
    /\ run.final_result.success
    /\ ~run.final_result.is_optimal

MinTotal(list) ==
    CHOOSE m \in {list[k].total_mp : k \in 1..Len(list)} :
        \A k \in 1..Len(list) : m <= list[k].total_mp

\* C28: when a run has returned with valid paths but no optimal one, the
\* total_mp of its final result is the smallest total_mp of the interactions
\* whose path was valid.
C28_FinalTotalIsTheMinimum ==
    (pc = "done" /\ run.final_result.success /\ ~run.final_result.is_optimal)
        => run.final_result.total_mp =
               <<MinTotal(SelectSeq(run.interactions, IsValidPath))>>


\* C29: in the loop the tile the actor stands on, taken as (level, index),
\* is none of the tiles of the current blocked set, whatever the spelling of
\* the Move token that the interpreter accepted (zero-padded indices such as
\* 'D02' or 'E01' included).
C29_NeverOnABlockedTile ==
    (pc = "loop" /\ current_position # None)
        => \A b \in game_state.blocked_tiles :
              ~(ParseTileOk(b) /\ parse_tile(b) = parse_tile(current_position))

OutwardTypes == {"outward_left", "outward_right", "outward_from_peak"}

\* C30: over the 61 well-formed tiles is_valid_move(a, b) is legal exactly
\* when is_valid_move(b, a) is; a legal outward move from a to b has a legal
\* inward move from b to a as its reverse, and conversely; a clockwise move
\* has a counter-clockwise move as its reverse, and conversely.
C30_LegalityIsSymmetric ==
    Classified =>
        LET back == is_valid_move(to_tile, from_tile)
        IN /\ move_result[1] <=> back[1]
           /\ move_result[2] \in OutwardTypes <=> back[2] \in InwardTypes
           /\ move_result[2] \in InwardTypes <=> back[2] \in OutwardTypes
           /\ move_result[2] = "clockwise" <=> back[2] = "counter_clockwise"
           /\ move_result[2] = "counter_clockwise" <=> back[2] = "clockwise"


\* the item types of the scenario's collectibles
CollectibleTypes ==
    {scenario.collectibles[k].type : k \in 1..Len(scenario.collectibles)}

\* C31: in every GameState of an evaluation, from the one validate_path
\* builds to the one it returns with, has_ladder is true exactly when
\* 'ladder' is among the collected items, has_key exactly when 'key' is,
\* dynamite_used only when 'dynamite' is, the collected items are item types
\* of the scenario's collectibles, and no step takes an item out of them.
C31_FlagsAgreeWithCollectedItems ==
    [][/\ (pc' = "loop" \/ (pc = "loop" /\ pc' = "returned")) =>
            /\ game_state'.has_ladder <=> Ladder \in game_state'.collected_items
            /\ game_state'.has_key <=> Key \in game_state'.collected_items
            /\ game_state'.dynamite_used => Dynamite \in game_state'.collected_items
            /\ game_state'.collected_items \subseteq CollectibleTypes
       /\ (pc = "start" /\ pc' = "loop") =>
            /\ game_state'.collected_items = {}
            /\ ~game_state'.has_ladder /\ ~game_state'.has_key
            /\ ~game_state'.dynamite_used
       /\ (pc = "loop" /\ pc' \in {"loop", "returned"}) =>
            game_state.collected_items \subseteq game_state'.collected_items]_vars

\* the key collected while the ladder is still on its tile, after the
\* dynamite has been collected and used
C31_Witness ==
    /\ pc = "loop"
    /\ game_state.collected_items = {Key, Dynamite}
    /\ game_state.has_key /\ ~game_state.has_ladder /\ game_state.dynamite_used
    /\ Ladder \in CollectibleTypes


\* the Moves among the actions taken up so far, for a path given whole
MovesTaken == Cardinality({k \in 1..i : ParseElement(path[k]).type = "move"})

\* C32: the starting Move costs 0 and every later Move that goes through
\* adds 1 or 2; no other step adds anything and total_mp never decreases;
\* after m >= 1 Moves that went through, m - 1 <= total_mp <= 2 * (m - 1)
\* (counted on the paths given whole; on every path total_mp <= 2 * (i - 1)
\* after i actions); and the current tile parses as a tile with its index in
\* 1..capacity(level).
C32_CostBoundsByMoves ==
    /\ []((pc = "loop" /\ ~open /\ current_position # None)
            => /\ MovesTaken >= 1
               /\ MovesTaken - 1 <= total_mp
               /\ total_mp <= 2 * (MovesTaken - 1))
    /\ []((pc = "loop" /\ current_position = None) => total_mp = 0)
    /\ []((pc = "loop" /\ current_position # None)
            => /\ i >= 1
               /\ total_mp >= 0
               /\ total_mp <= 2 * (i - 1)
               /\ ParseTileOk(current_position)
               /\ current_position[1] \in Levels
               /\ \A k \in 2..Len(current_position) : current_position[k] \in Digits
               /\ parse_tile(current_position)[2] \in 1..LEVEL_MAX(current_position[1]))
    /\ [][/\ (pc = "loop" /\ pc' = "loop" /\ i' = i + 1 /\ action'.type = "move"
              /\ current_position = None)
             => (total_mp' = 0 /\ total_mp = 0 /\ current_position' = action'.tile)
          /\ MoveStep => (total_mp' - total_mp \in {1, 2})
          /\ (pc = "loop" /\ i' = i + 1 /\ action'.type # "move") => total_mp' = total_mp
          /\ (pc = "loop" /\ pc' = "returned")
               => (total_mp' = total_mp /\ result'.total_mp = total_mp)
          /\ pc = "loop" => total_mp' >= total_mp]_vars

\* four Moves, the last two inward with the ladder: total_mp = m - 1
C32_Witness ==
    /\ pc = "loop" /\ ~open
    /\ path = <<E1, CollectText(E1, Ladder), E2, D1, C1>>
    /\ i = 5
    /\ MovesTaken = 4
    /\ total_mp = 3
    /\ current_position = C1

====
